---- MODULE Spec2Model ----
(***************************************************************************)
(* curlify: jsonToCurl(config) turns an n8n HTTP request configuration     *)
(* into a curl command.  The function is modelled section by section; each *)
(* section of the source is one action that appends to `parts`.            *)
(*                                                                         *)
(* JavaScript strings are sequences of one-character strings.  JavaScript  *)
(* values are records [t, b, n, s, o]: the type tag, and the boolean,      *)
(* number, string and own-enumerable-entries payloads (unused payloads     *)
(* hold a fixed default).  A field the object does not have reads as       *)
(* undefined, exactly as `config.x` does.                                  *)
(*                                                                         *)
(* `cli` is the process around the call when the command-line entry point  *)
(* makes it: its argument, the file system's answer for it, standard       *)
(* output and error, and the exit status.  A direct call leaves it alone.  *)
(***************************************************************************)
EXTENDS Integers, Sequences, FiniteSets

VARIABLES config, pc, parts, out, err, cli

vars == <<config, pc, parts, out, err, cli>>

----------------------------------------------------------------------------
(* JavaScript values *)

Undef == [t |-> "undefined", b |-> FALSE, n |-> 0, s |-> <<>>, o |-> <<>>]
Null == [t |-> "null", b |-> FALSE, n |-> 0, s |-> <<>>, o |-> <<>>]
Bool(x) == [t |-> "boolean", b |-> x, n |-> 0, s |-> <<>>, o |-> <<>>]
Num(x) == [t |-> "number", b |-> FALSE, n |-> x, s |-> <<>>, o |-> <<>>]
Str(x) == [t |-> "string", b |-> FALSE, n |-> 0, s |-> x, o |-> <<>>]
Obj(entries) == [t |-> "object", b |-> FALSE, n |-> 0, s |-> <<>>, o |-> entries]
Entry(key, value) == [k |-> key, v |-> value]

\* ToBoolean: the test of `if (x)`, `x && y`, `x || y` and `!x`.
Truthy(v) ==
    CASE v.t = "boolean" -> v.b
      [] v.t = "number" -> v.n # 0
      [] v.t = "string" -> v.s # <<>>
      [] v.t = "object" -> TRUE
      [] OTHER -> FALSE

\* a || b
OrElse(a, b) == IF Truthy(a) THEN a ELSE b

\* a ?? b
Coalesce(a, b) == IF a.t \in {"undefined", "null"} THEN b ELSE a

----------------------------------------------------------------------------
(* Strings *)

LowerLetters ==
    <<"a", "b", "c", "d", "e", "f", "g", "h", "i", "j", "k", "l", "m",
      "n", "o", "p", "q", "r", "s", "t", "u", "v", "w", "x", "y", "z">>
UpperLetters ==
    <<"A", "B", "C", "D", "E", "F", "G", "H", "I", "J", "K", "L", "M",
      "N", "O", "P", "Q", "R", "S", "T", "U", "V", "W", "X", "Y", "Z">>
Digits == <<"0", "1", "2", "3", "4", "5", "6", "7", "8", "9">>

\* A lone UTF-16 surrogate code unit, written as one character.
LoneSurrogate == "<D800>"

IndexOf(seq, c) == CHOOSE i \in 1..Len(seq) : seq[i] = c
Has(seq, c) == \E i \in 1..Len(seq) : seq[i] = c

ToUpperChar(c) == IF Has(LowerLetters, c) THEN UpperLetters[IndexOf(LowerLetters, c)] ELSE c

\* The string left in the case it came in
toUpperCaseForgotten(s) == s

\* String.prototype.toUpperCase
toUpperCase(s) == [i \in 1..Len(s) |-> ToUpperChar(s[i])]

RECURSIVE Concat(_)
Concat(seqs) == IF seqs = <<>> THEN <<>> ELSE Head(seqs) \o Concat(Tail(seqs))

\* Array.prototype.join
RECURSIVE Join(_, _)
Join(seqs, sep) ==
    IF seqs = <<>> THEN <<>>
    ELSE IF Len(seqs) = 1 THEN seqs[1]
    ELSE seqs[1] \o sep \o Join(Tail(seqs), sep)

RECURSIVE NatToStr(_)
NatToStr(n) == IF n < 10 THEN <<Digits[n + 1]>> ELSE NatToStr(n \div 10) \o <<Digits[(n % 10) + 1]>>

\* Number -> String, for integers
NumToStr(n) == IF n < 0 THEN <<"-">> \o NatToStr(-n) ELSE NatToStr(n)

ObjectObject == <<"[", "o", "b", "j", "e", "c", "t", " ", "O", "b", "j", "e", "c", "t", "]">>

\* JsToString, as applied by template literals and encodeURIComponent
JsToString(v) ==
    CASE v.t = "string" -> v.s
      [] v.t = "number" -> NumToStr(v.n)
      [] v.t = "boolean" -> IF v.b THEN <<"t", "r", "u", "e">> ELSE <<"f", "a", "l", "s", "e">>
      [] v.t = "null" -> <<"n", "u", "l", "l">>
      [] v.t = "undefined" -> <<"u", "n", "d", "e", "f", "i", "n", "e", "d">>
      [] OTHER -> ObjectObject

\* Object.entries: the own enumerable entries; a string's are its indexed
\* characters, a number or boolean has none.
ObjectEntries(v) ==
    CASE v.t = "object" -> v.o
      [] v.t = "string" -> [i \in 1..Len(v.s) |-> Entry(NatToStr(i - 1), Str(<<v.s[i]>>))]
      [] OTHER -> <<>>

\* A quote escaped by a backslash alone, which a single-quoted shell string
\* does not honour
RECURSIVE EscapeQuotesBackslash(_)
EscapeQuotesBackslash(s) ==
    IF s = <<>> THEN <<>>
    ELSE (IF Head(s) = "'" THEN <<"\\", "'">> ELSE <<Head(s)>>) \o EscapeQuotesBackslash(Tail(s))

\* String.prototype.replace(/'/g, "'\\''")
RECURSIVE EscapeQuotes(_)
EscapeQuotes(s) ==
    IF s = <<>> THEN <<>>
    ELSE (IF Head(s) = "'" THEN <<"'", "\\", "'", "'">> ELSE <<Head(s)>>) \o EscapeQuotes(Tail(s))

\* encodeURIComponent leaves A-Z a-z 0-9 - _ . ! ~ * ' ( ) as they are.
UriUnreserved(c) ==
    \/ Has(LowerLetters, c)
    \/ Has(UpperLetters, c)
    \/ Has(Digits, c)
    \/ c \in {"-", "_", ".", "!", "~", "*", "'", "(", ")"}

\* The escape of a reserved ASCII character: % and the two hex digits of its
\* code.  Only the characters listed here are drawn as form input.
PercentEncoded(c) ==
    CASE c = " " -> <<"%", "2", "0">>
      [] c = "\"" -> <<"%", "2", "2">>
      [] c = "#" -> <<"%", "2", "3">>
      [] c = "%" -> <<"%", "2", "5">>
      [] c = "&" -> <<"%", "2", "6">>
      [] c = "+" -> <<"%", "2", "B">>
      [] c = "," -> <<"%", "2", "C">>
      [] c = "/" -> <<"%", "2", "F">>
      [] c = ":" -> <<"%", "3", "A">>
      [] c = "=" -> <<"%", "3", "D">>
      [] c = "?" -> <<"%", "3", "F">>
      [] c = "\\" -> <<"%", "5", "C">>

\* encodeURIComponent throws URIError on a lone surrogate.
UriMalformed(s) == Has(s, LoneSurrogate)

\* encodeURIComponent, for a string it does not throw on
RECURSIVE encodeURIComponent(_)
encodeURIComponent(s) ==
    IF s = <<>> THEN <<>>
    ELSE (IF UriUnreserved(Head(s)) THEN <<Head(s)>> ELSE PercentEncoded(Head(s)))
         \o encodeURIComponent(Tail(s))

\* The quoted form of a string in JSON.stringify's output
RECURSIVE JsonEscape(_)
JsonEscape(s) ==
    IF s = <<>> THEN <<>>
    ELSE (CASE Head(s) = "\"" -> <<"\\", "\"">>
            [] Head(s) = "\\" -> <<"\\", "\\">>
            [] Head(s) = "\n" -> <<"\\", "n">>
            [] Head(s) = LoneSurrogate -> <<"\\", "u", "d", "8", "0", "0">>
            [] OTHER -> <<Head(s)>>) \o JsonEscape(Tail(s))

JsonQuote(s) == <<"\"">> \o JsonEscape(s) \o <<"\"">>

\* JSON.stringify of a value that is no object with entries
JsonScalar(v) ==
    CASE v.t = "string" -> JsonQuote(v.s)
      [] v.t = "number" -> NumToStr(v.n)
      [] v.t = "boolean" -> JsToString(v)
      [] v.t = "null" -> JsToString(v)
      [] OTHER -> <<"{", "}">>

\* The members of an object in JSON.stringify's output: an entry whose value
\* is undefined is left out.
RECURSIVE JsonMembers(_)
JsonMembers(entries) ==
    IF entries = <<>> THEN <<>>
    ELSE (IF Head(entries).v.t = "undefined" THEN <<>>
          ELSE <<JsonQuote(Head(entries).k) \o <<":">> \o JsonScalar(Head(entries).v)>>)
         \o JsonMembers(Tail(entries))

\* JSON.stringify(value), compact
JsonStringify(v) ==
    IF v.t = "object" THEN <<"{">> \o Join(JsonMembers(v.o), <<",">>) \o <<"}">>
    ELSE JsonScalar(v)

----------------------------------------------------------------------------
(* jsonToCurl, section by section.  A token of `parts` carries the section  *)
(* that pushed it beside its text; the text is all the program holds.      *)

Tok(kind, text) == [kind |-> kind, text |-> text]
Ok(toks) == [err |-> "", toks |-> toks]
Throw(e) == [err |-> e, toks |-> <<>>]

GET == <<"G", "E", "T">>
DataOpen == <<"-", "d", " ", "'">>
HeaderOpen == <<"-", "H", " ", "'">>
MaxTimeFlag == <<"-", "-", "m", "a", "x", "-", "t", "i", "m", "e", " ">>
NaN == <<"N", "a", "N">>

\* The separator of parts.join(' \\\n  ')
Separator == <<" ", "\\", "\n", " ", " ">>

\* const method = (config.method || 'GET').toUpperCase(); a truthy method
\* that is no string has no toUpperCase.
MethodSection(c) ==
    LET m == OrElse(c.method, Str(GET)) IN
    IF m.t # "string" THEN Throw("TypeError")
    ELSE LET method == toUpperCase(m.s) IN
         Ok(IF method # GET THEN <<Tok("method", <<"-", "X", " ">> \o method)>> ELSE <<>>)

\* `-H '${key}: ${escapedValue}'`
HeaderToken(e) == Tok("header", HeaderOpen \o e.k \o <<":", " ">> \o EscapeQuotes(e.v.s) \o <<"'">>)

\* The loop over Object.entries(config.headers); value.replace throws on a
\* value that is no string.
HeadersSection(c) ==
    IF ~Truthy(c.headers) THEN Ok(<<>>)
    ELSE LET es == ObjectEntries(c.headers) IN
         IF \E i \in 1..Len(es) : es[i].v.t # "string" THEN Throw("TypeError")
         ELSE Ok([i \in 1..Len(es) |-> HeaderToken(es[i])])

\* encodeURIComponent(value ?? '')
FormValue(v) == JsToString(Coalesce(v, Str(<<>>)))

\* `${encodedKey}=${encodedValue}`
FormPart(e) == encodeURIComponent(e.k) \o <<"=">> \o encodeURIComponent(FormValue(e.v))

FormSection(c) ==
    IF ~Truthy(c.form) THEN Ok(<<>>)
    ELSE LET es == ObjectEntries(c.form) IN
         IF \E i \in 1..Len(es) : UriMalformed(es[i].k) \/ UriMalformed(FormValue(es[i].v))
         THEN Throw("URIError")
         ELSE LET formParts == [i \in 1..Len(es) |-> FormPart(es[i])] IN
              Ok(IF Len(formParts) > 0
                 THEN <<Tok("form", DataOpen \o Join(formParts, <<"&">>) \o <<"'">>)>>
                 ELSE <<>>)

\* typeof config.body === 'string' ? config.body : JSON.stringify(config.body)
BodyStr(body) == IF body.t = "string" THEN body.s ELSE JsonStringify(body)

\* `-d '${escapedBody}'`
BodyToken(kind, body) == Tok(kind, DataOpen \o EscapeQuotes(BodyStr(body)) \o <<"'">>)

\* if (config.body && config.json)
JsonBodyCond(c) == Truthy(c.body) /\ Truthy(c.json)

JsonBodySection(c) == Ok(IF JsonBodyCond(c) THEN <<BodyToken("json", c.body)>> ELSE <<>>)

\* The raw-body test without its json clause
RawBodyCondAnyJson(c) == Truthy(c.body) /\ ~Truthy(c.form)

\* if (config.body && !config.json && !config.form)
RawBodyCond(c) == Truthy(c.body) /\ ~Truthy(c.json) /\ ~Truthy(c.form)

RawBodySection(c) == Ok(IF RawBodyCond(c) THEN <<BodyToken("raw", c.body)>> ELSE <<>>)

GzipSection(c) ==
    Ok(IF Truthy(c.gzip)
       THEN <<Tok("gzip", <<"-", "-", "c", "o", "m", "p", "r", "e", "s", "s", "e", "d">>)>>
       ELSE <<>>)

\* The test as a falsiness test
InsecureCondFalsy(c) == ~Truthy(c.rejectUnauthorized)

\* if (config.rejectUnauthorized === false)
InsecureCond(c) == c.rejectUnauthorized = Bool(FALSE)

InsecureSection(c) == Ok(IF InsecureCond(c) THEN <<Tok("insecure", <<"-", "k">>)>> ELSE <<>>)

RedirectSection(c) ==
    Ok(IF Truthy(c.followRedirect) \/ Truthy(c.followAllRedirects)
       THEN <<Tok("redirect", <<"-", "L">>)>>
       ELSE <<>>)

MsPerSecond == 1000

\* The seconds truncated instead of rounded up
TimeoutSecTruncated(ms) == ms \div MsPerSecond

\* Math.ceil(ms / 1000) of an integer
TimeoutSec(ms) == -((-ms) \div MsPerSecond)

\* `${timeoutSec}` of a truthy timeout: a number, true (which converts to 1)
\* or an object (which converts to NaN)
TimeoutText(v) ==
    CASE v.t = "number" -> NumToStr(TimeoutSec(v.n))
      [] v.t = "boolean" -> NumToStr(TimeoutSec(1))
      [] v.t = "object" -> NaN

TimeoutSection(c) ==
    Ok(IF Truthy(c.timeout)
       THEN <<Tok("timeout", MaxTimeFlag \o TimeoutText(c.timeout))>>
       ELSE <<>>)

IncludeSection(c) ==
    Ok(IF Truthy(c.resolveWithFullResponse) THEN <<Tok("include", <<"-", "i">>)>> ELSE <<>>)

\* The two fields tried in the other order
ResolveUrlPreferUrl(c) == OrElse(c.url, c.uri)

\* const url = config.uri || config.url
ResolveUrl(c) == OrElse(c.uri, c.url)

\* `'${url}'`
UrlToken(url) == Tok("url", <<"'">> \o JsToString(url) \o <<"'">>)

UrlSection(c) == Ok(IF Truthy(ResolveUrl(c)) THEN <<UrlToken(ResolveUrl(c))>> ELSE <<>>)

Texts(toks) == [i \in 1..Len(toks) |-> toks[i].text]

\* parts.join(' \\\n  ')
JoinParts(toks) == Join(Texts(toks), Separator)

\* The sections with the URL pushed before the option flags.
SectionsUrlEarly ==
    <<"method", "headers", "url", "form", "jsonBody", "rawBody", "gzip", "insecure",
      "redirect", "timeout", "include", "join">>

\* The sections in source order, and the one that follows each.
Sections ==
    <<"method", "headers", "form", "jsonBody", "rawBody", "gzip", "insecure",
      "redirect", "timeout", "include", "url", "join">>

After(section) == Sections[IndexOf(Sections, section) + 1]

\* One section has run: it pushes its tokens and control moves on, or it
\* throws and the call ends without a result.
Ran(section, r) ==
    IF r.err # ""
    THEN /\ pc' = "raised"
         /\ err' = r.err
         /\ UNCHANGED <<config, parts, out, cli>>
    ELSE /\ pc' = After(section)
         /\ parts' = parts \o r.toks
         /\ UNCHANGED <<config, out, err, cli>>

Method ==
    /\ pc = "method"
    /\ Ran("method", MethodSection(config))

Headers ==
    /\ pc = "headers"
    /\ Ran("headers", HeadersSection(config))

Form ==
    /\ pc = "form"
    /\ Ran("form", FormSection(config))

JsonBody ==
    /\ pc = "jsonBody"
    /\ Ran("jsonBody", JsonBodySection(config))

RawBody ==
    /\ pc = "rawBody"
    /\ Ran("rawBody", RawBodySection(config))

Gzip ==
    /\ pc = "gzip"
    /\ Ran("gzip", GzipSection(config))

Insecure ==
    /\ pc = "insecure"
    /\ Ran("insecure", InsecureSection(config))

Redirect ==
    /\ pc = "redirect"
    /\ Ran("redirect", RedirectSection(config))

Timeout ==
    /\ pc = "timeout"
    /\ Ran("timeout", TimeoutSection(config))

Include ==
    /\ pc = "include"
    /\ Ran("include", IncludeSection(config))

Url ==
    /\ pc = "url"
    /\ Ran("url", UrlSection(config))

\* return parts.join(...)
Return ==
    /\ pc = "join"
    /\ out' = JoinParts(parts)
    /\ pc' = "done"
    /\ UNCHANGED <<config, parts, err, cli>>

Next ==
    \/ Method
    \/ Headers
    \/ Form
    \/ JsonBody
    \/ RawBody
    \/ Gzip
    \/ Insecure
    \/ Redirect
    \/ Timeout
    \/ Include
    \/ Url
    \/ Return

----------------------------------------------------------------------------
(* The call: const parts = ['curl'], with `config` the argument.           *)

Curl == <<"c", "u", "r", "l">>

\* No process around the call: jsonToCurl used as a module.
NoCli ==
    [stage |-> "none", argv |-> <<>>, exists |-> FALSE, readable |-> FALSE,
     content |-> <<>>, jsonData |-> Undef, stdout |-> <<>>, stderr |-> <<>>,
     exit |-> -1, calls |-> 0]

Call(c) ==
    /\ cli = NoCli
    /\ config = c
    /\ pc = "method"
    /\ parts = <<Tok("curl", Curl)>>
    /\ out = <<>>
    /\ err = ""

\* The empty object: every field reads as undefined.
EmptyConfig ==
    [method |-> Undef, headers |-> Undef, form |-> Undef, body |-> Undef,
     json |-> Undef, gzip |-> Undef, rejectUnauthorized |-> Undef,
     followRedirect |-> Undef, followAllRedirects |-> Undef, timeout |-> Undef,
     resolveWithFullResponse |-> Undef, uri |-> Undef, url |-> Undef,
     extra |-> Undef]

----------------------------------------------------------------------------
(* Inputs *)

MaxLen == 3
MaxHeaders == 2
MaxTimeout == 2100

Strings(alphabet, n) == UNION {[1..k -> alphabet] : k \in 0..n}

CaseVariants(w) ==
    {[i \in 1..Len(w) |-> IF i \in S THEN ToUpperChar(w[i]) ELSE w[i]] : S \in SUBSET (1..Len(w))}

Flag == {Undef, Bool(TRUE)}

ExampleUrl == Str(<<"h", "t", "t", "p", ":", "/", "/", "x", ".", "t", "e", "s", "t">>)
OtherUrl == Str(<<"h", "t", "t", "p", ":", "/", "/", "y", ".", "t", "e", "s", "t">>)
Post == Str(<<"p", "o", "s", "t">>)

ContentType ==
    Entry(<<"C", "o", "n", "t", "e", "n", "t", "-", "T", "y", "p", "e">>,
          Str(<<"a", "p", "p", "l", "i", "c", "a", "t", "i", "o", "n", "/", "j", "s", "o", "n">>))
QuotedHeader == Entry(<<"X", "-", "Q">>, Str(<<"i", "t", "'", "s">>))
NumericHeader == Entry(<<"X", "-", "N">>, Num(3))

\* {"name":"John","age":30}
JohnBody == Obj(<<Entry(<<"n", "a", "m", "e">>, Str(<<"J", "o", "h", "n">>)), Entry(<<"a", "g", "e">>, Num(30))>>)

\* {"a":"1","b":"two words"}
TwoWordsForm ==
    Obj(<<Entry(<<"a">>, Str(<<"1">>)),
          Entry(<<"b">>, Str(<<"t", "w", "o", " ", "w", "o", "r", "d", "s">>))>>)
NullValueForm == Obj(<<Entry(<<"k">>, Null)>>)
SurrogateForm == Obj(<<Entry(<<"k">>, Str(<<LoneSurrogate>>))>>)

\* Configurations over every field at once, a few values each.
Configs ==
    {[method |-> m, headers |-> h, form |-> f, body |-> b, json |-> j, gzip |-> g,
      rejectUnauthorized |-> r, followRedirect |-> fr, followAllRedirects |-> fa,
      timeout |-> t, resolveWithFullResponse |-> i, uri |-> u1, url |-> u2, extra |-> x] :
        m \in {Undef, Post},
        h \in {Undef, Obj(<<ContentType, QuotedHeader>>), Obj(<<NumericHeader>>)},
        f \in {Undef, Obj(<<>>), TwoWordsForm, SurrogateForm},
        b \in {Undef, JohnBody},
        j \in Flag, g \in Flag,
        r \in {Undef, Bool(FALSE)},
        fr \in Flag, fa \in Flag,
        t \in {Undef, Num(1500)},
        i \in Flag,
        u1 \in {Undef, ExampleUrl},
        u2 \in {Undef, OtherUrl},
        x \in Flag}

BodyChars == {"a", "'", "\\", "\"", " "}

Bodies ==
    {Undef, Null, Num(0), Num(7), Bool(FALSE), Bool(TRUE), Obj(<<>>), JohnBody,
     Obj(<<Entry(<<"q">>, Str(<<"'">>)), Entry(<<"u">>, Undef), Entry(<<"z">>, Null)>>)}
    \cup {Str(b) : b \in Strings(BodyChars, MaxLen)}

Forms == {Undef, Null, Obj(<<>>), TwoWordsForm, NullValueForm}

\* Configurations that vary the body, the json flag and the form.
BodyConfigs ==
    {[EmptyConfig EXCEPT !.method = Post, !.body = b, !.json = j, !.form = f,
                         !.url = ExampleUrl] :
        b \in Bodies, j \in {Undef, Bool(FALSE), Bool(TRUE)}, f \in Forms}

MethodWords == {<<"g", "e", "t">>, <<"p", "o", "s", "t">>, <<"p", "u", "t">>}

Methods ==
    {Undef, Null, Str(<<>>), Num(1), Bool(TRUE)}
    \cup {Str(m) : m \in UNION {CaseVariants(w) : w \in MethodWords}}

\* Configurations that vary the method.
MethodConfigs ==
    {[EmptyConfig EXCEPT !.method = m, !.headers = h, !.url = u] :
        m \in Methods, h \in {Undef, Obj(<<ContentType>>)}, u \in {Undef, ExampleUrl}}

HeaderNames == {<<"a">>, <<"k", "'">>}
HeaderChars == {"v", "'"}
HeaderEntries == {Entry(k, Str(v)) : k \in HeaderNames, v \in Strings(HeaderChars, MaxLen)}

\* The header objects of up to MaxHeaders entries; an object holds a name once.
HeaderObjects ==
    {Obj(es) : es \in {e \in UNION {[1..n -> HeaderEntries] : n \in 0..MaxHeaders} :
                        \A i, j \in 1..Len(e) : i # j => e[i].k # e[j].k}}

\* Configurations that vary the headers.
HeaderConfigs ==
    {[EmptyConfig EXCEPT !.headers = h, !.url = u] :
        h \in {Undef} \cup HeaderObjects, u \in {Undef, ExampleUrl}}

Timeouts == {Undef, Null} \cup {Num(ms) : ms \in (0 - MaxTimeout)..MaxTimeout}

\* Configurations that vary the timeout.
TimeoutConfigs ==
    {[EmptyConfig EXCEPT !.timeout = t, !.resolveWithFullResponse = i, !.url = ExampleUrl] :
        t \in Timeouts, i \in Flag}

UrlChars == {"u", "'"}
Urls == {Undef, Null, ExampleUrl, OtherUrl} \cup {Str(u) : u \in Strings(UrlChars, MaxLen)}

\* Configurations that vary the two URL fields.
UrlConfigs ==
    {[EmptyConfig EXCEPT !.uri = u1, !.url = u2, !.resolveWithFullResponse = i] :
        u1 \in Urls, u2 \in Urls, i \in Flag}

RejectUnauthorizedValues == {Undef, Null, Bool(FALSE), Bool(TRUE), Num(0), Str(<<>>)}

\* Configurations that vary rejectUnauthorized among the flags next to it.
InsecureConfigs ==
    {[EmptyConfig EXCEPT !.rejectUnauthorized = r, !.gzip = g, !.followRedirect = fr,
                         !.timeout = t, !.url = u] :
        r \in RejectUnauthorizedValues, g \in Flag, fr \in Flag,
        t \in {Undef, Num(1500)}, u \in {Undef, ExampleUrl}}

Init == \E c \in Configs : Call(c)

Spec == Init /\ [][Next]_vars

InitBody == \E c \in BodyConfigs : Call(c)

SpecBody == InitBody /\ [][Next]_vars

InitMethod == \E c \in MethodConfigs : Call(c)

SpecMethod == InitMethod /\ [][Next]_vars

InitHeaders == \E c \in HeaderConfigs : Call(c)

SpecHeaders == InitHeaders /\ [][Next]_vars

InitTimeout == \E c \in TimeoutConfigs : Call(c)

SpecTimeout == InitTimeout /\ [][Next]_vars

InitUrl == \E c \in UrlConfigs : Call(c)

SpecUrl == InitUrl /\ [][Next]_vars

InitInsecure == \E c \in InsecureConfigs : Call(c)

SpecInsecure == InitInsecure /\ [][Next]_vars

----------------------------------------------------------------------------
(* What the claims speak of *)

Kinds ==
    <<"curl", "method", "header", "form", "json", "raw", "gzip", "insecure",
      "redirect", "timeout", "include", "url">>

Rank(kind) == IndexOf(Kinds, kind)

Returned == pc = "done"

HasKind(kind) == \E i \in 1..Len(parts) : parts[i].kind = kind
CountKind(kind) == Cardinality({i \in 1..Len(parts) : parts[i].kind = kind})
TokensOf(kind) == SelectSeq(parts, LAMBDA t : t.kind = kind)

IsObject(v) == v.t = "object"
IsString(v) == v.t = "string"

\* A mapping that is absent or has no entry
AbsentOrEmpty(v) == ~Truthy(v) \/ (IsObject(v) /\ v.o = <<>>)

\* Where token i starts in the joined output, counted from 0: every token
\* before it, each followed by the five separator characters.
RECURSIVE OffsetOf(_)
OffsetOf(i) == IF i = 1 THEN 0 ELSE OffsetOf(i - 1) + Len(parts[i - 1].text) + 5

\* The output holds the tokens in order, any two neighbours separated by
\* space, backslash, newline, space, space, and nothing else.
JoinedAsDisplayed ==
    /\ Len(out) = OffsetOf(Len(parts)) + Len(parts[Len(parts)].text)
    /\ \A i \in 1..Len(parts) :
        /\ SubSeq(out, OffsetOf(i) + 1, OffsetOf(i) + Len(parts[i].text)) = parts[i].text
        /\ i < Len(parts) =>
            LET at == OffsetOf(i) + Len(parts[i].text) IN
            /\ out[at + 1] = " "
            /\ out[at + 2] = "\\"
            /\ out[at + 3] = "\n"
            /\ out[at + 4] = " "
            /\ out[at + 5] = " "

\* The condition the specification gives for each step's token.
StepCondition(kind) ==
    CASE kind = "curl" -> TRUE
      [] kind = "method" -> IsString(config.method) /\ toUpperCase(config.method.s) # GET
      [] kind = "header" -> IsObject(config.headers) /\ config.headers.o # <<>>
      [] kind = "form" -> IsObject(config.form) /\ config.form.o # <<>>
      [] kind = "json" -> Truthy(config.body) /\ Truthy(config.json)
      [] kind = "raw" -> Truthy(config.body) /\ ~Truthy(config.json) /\ AbsentOrEmpty(config.form)
      [] kind = "gzip" -> Truthy(config.gzip)
      [] kind = "insecure" -> config.rejectUnauthorized = Bool(FALSE)
      [] kind = "redirect" -> Truthy(config.followRedirect) \/ Truthy(config.followAllRedirects)
      [] kind = "timeout" -> Truthy(config.timeout)
      [] kind = "include" -> Truthy(config.resolveWithFullResponse)
      [] kind = "url" -> Truthy(config.uri) \/ Truthy(config.url)

\* The request of the specification's POST scenario, with a second header
\* whose value holds a quote.
PostScenario ==
    [EmptyConfig EXCEPT !.method = Post, !.headers = Obj(<<ContentType, QuotedHeader>>),
                        !.body = JohnBody, !.json = Bool(TRUE), !.url = OtherUrl]

\* curl, -X POST, -H 'Content-Type: application/json', -H 'X-Q: it'\''s',
\* -d '{"name":"John","age":30}', 'http://y.test'
PostScenarioTokens ==
    <<
        <<"c", "u", "r", "l">>,
        <<"-", "X", " ", "P", "O", "S", "T">>,
        <<"-", "H", " ", "'", "C", "o", "n", "t", "e", "n", "t", "-", "T",
          "y", "p", "e", ":", " ", "a", "p", "p", "l", "i", "c", "a", "t",
          "i", "o", "n", "/", "j", "s", "o", "n", "'">>,
        <<"-", "H", " ", "'", "X", "-", "Q", ":", " ", "i", "t", "'", "\\",
          "'", "'", "s", "'">>,
        <<"-", "d", " ", "'", "{", "\"", "n", "a", "m", "e", "\"", ":",
          "\"", "J", "o", "h", "n", "\"", ",", "\"", "a", "g", "e", "\"",
          ":", "3", "0", "}", "'">>,
        <<"'", "h", "t", "t", "p", ":", "/", "/", "y", ".", "t", "e", "s",
          "t", "'">>
    >>

\* C1: at every point of the call the tokens pushed so far stand in the fixed
\* order of the steps: `curl` first, then the method flag, the header flags,
\* the form -d, the JSON-body -d, the raw-body -d, --compressed, -k, -L,
\* --max-time, -i and the URL last; only the header step has more than one
\* token; a token is there only when its step's condition holds; and the
\* returned string is the tokens joined by space, backslash, newline, two
\* spaces.
TokensInFixedOrder ==
    /\ Len(parts) >= 1
    /\ parts[1] = Tok("curl", Curl)
    /\ \A i, j \in 1..Len(parts) :
        i < j =>
            \/ Rank(parts[i].kind) < Rank(parts[j].kind)
            \/ parts[i].kind = "header" /\ parts[j].kind = "header"
    /\ \A i \in 1..Len(parts) : StepCondition(parts[i].kind)
    /\ Returned => JoinedAsDisplayed
    /\ Returned /\ config = PostScenario => Texts(parts) = PostScenarioTokens

\* A call that returned with a token of every step that can occur together.
AllStepsWitness ==
    /\ Returned
    /\ \A k \in {"method", "header", "form", "json", "gzip", "insecure",
                 "redirect", "timeout", "include", "url"} : HasKind(k)
    /\ CountKind("header") = 2
    /\ parts[Len(parts)].kind = "url"

----------------------------------------------------------------------------
(* Reading a command line the way a POSIX shell splits it into words:      *)
(* single quotes keep everything up to the next single quote, double       *)
(* quotes keep everything but backslash escapes, a backslash outside       *)
(* quotes keeps the next character, backslash-newline continues the line,  *)
(* and blanks outside quotes end a word.  `ok` is false when the line ends *)
(* inside a quote or on a backslash.                                       *)

RECURSIVE ShellScan(_, _, _, _, _, _)
ShellScan(s, i, mode, inWord, cur, words) ==
    IF i > Len(s)
    THEN [ok |-> mode = "n", words |-> IF inWord THEN Append(words, cur) ELSE words]
    ELSE LET c == s[i] IN
         CASE mode = "s" ->
                IF c = "'" THEN ShellScan(s, i + 1, "n", TRUE, cur, words)
                ELSE ShellScan(s, i + 1, "s", TRUE, Append(cur, c), words)
           [] mode = "d" ->
                IF c = "\"" THEN ShellScan(s, i + 1, "n", TRUE, cur, words)
                ELSE IF c = "\\" /\ i < Len(s) /\ s[i + 1] \in {"\"", "\\", "$"}
                     THEN ShellScan(s, i + 2, "d", TRUE, Append(cur, s[i + 1]), words)
                ELSE IF c = "\\" /\ i < Len(s) /\ s[i + 1] = "\n"
                     THEN ShellScan(s, i + 2, "d", TRUE, cur, words)
                ELSE ShellScan(s, i + 1, "d", TRUE, Append(cur, c), words)
           [] OTHER ->
                IF c = "'" THEN ShellScan(s, i + 1, "s", TRUE, cur, words)
                ELSE IF c = "\"" THEN ShellScan(s, i + 1, "d", TRUE, cur, words)
                ELSE IF c = "\\"
                     THEN IF i = Len(s) THEN [ok |-> FALSE, words |-> words]
                          ELSE IF s[i + 1] = "\n" THEN ShellScan(s, i + 2, "n", inWord, cur, words)
                          ELSE ShellScan(s, i + 2, "n", TRUE, Append(cur, s[i + 1]), words)
                ELSE IF c \in {" ", "\n"}
                     THEN ShellScan(s, i + 1, "n", FALSE, <<>>,
                                    IF inWord THEN Append(words, cur) ELSE words)
                ELSE ShellScan(s, i + 1, "n", TRUE, Append(cur, c), words)

ShellWords(s) == ShellScan(s, 1, "n", FALSE, <<>>, <<>>)

StartsWith(s, prefix) == Len(s) >= Len(prefix) /\ SubSeq(s, 1, Len(prefix)) = prefix

\* The tokens that are -d flags, told by their text alone
DataFlags == SelectSeq(parts, LAMBDA t : StartsWith(t.text, <<"-", "d", " ">>))

QuotesIn(s) == Cardinality({i \in 1..Len(s) : s[i] = "'"})

----------------------------------------------------------------------------
(* The body flags, under SpecBody *)

\* -d '{"name":"John","age":30}'
JohnFlag ==
    <<"-", "d", " ", "'", "{", "\"", "n", "a", "m", "e", "\"", ":", "\"",
      "J", "o", "h", "n", "\"", ",", "\"", "a", "g", "e", "\"", ":", "3",
      "0", "}", "'">>

\* -d 'a=1&b=two%20words'
TwoWordsFlag ==
    <<"-", "d", " ", "'", "a", "=", "1", "&", "b", "=", "t", "w", "o", "%",
      "2", "0", "w", "o", "r", "d", "s", "'">>

TwoDataFlags == <<TwoWordsFlag, JohnFlag>>

\* C2: the raw-body -d flag is emitted exactly when body is present, json is
\* falsy and form is absent or empty; with a body, no json flag and the
\* empty form {} the flag is still there.
RawBodyExactlyWhenNoFormData ==
    Returned =>
        (HasKind("raw") <=>
            Truthy(config.body) /\ ~Truthy(config.json) /\ AbsentOrEmpty(config.form))

\* What the code does instead: any form object, the empty one too, keeps the
\* raw body out.
RawBodyExactlyWhenFormFalsy ==
    Returned =>
        (HasKind("raw") <=>
            Truthy(config.body) /\ ~Truthy(config.json) /\ ~Truthy(config.form))

\* A body with the empty form {} and no json flag: returned with no -d at all.
EmptyFormDropsBody ==
    /\ Returned
    /\ Truthy(config.body)
    /\ ~Truthy(config.json)
    /\ config.form = Obj(<<>>)
    /\ Len(DataFlags) = 0

\* C3: the form, JSON-body and raw-body conditions are tested one by one: a
\* non-empty form with a body and a truthy json gives exactly two -d flags,
\* the form payload first and the body payload second; the JSON-body and the
\* raw-body flag never occur together; no call gives more than two -d flags.
AtMostTwoDataFlags ==
    Returned =>
        /\ Len(DataFlags) = CountKind("form") + CountKind("json") + CountKind("raw")
        /\ Len(DataFlags) <= 2
        /\ ~(HasKind("json") /\ HasKind("raw"))
        /\ (IsObject(config.form) /\ config.form.o # <<>>
            /\ Truthy(config.body) /\ Truthy(config.json)) =>
                /\ Len(DataFlags) = 2
                /\ DataFlags[1].kind = "form"
                /\ DataFlags[2].kind = "json"
                /\ ShellWords(DataFlags[2].text).words = <<<<"-", "d">>, BodyStr(config.body)>>
        /\ (config.form = TwoWordsForm /\ config.body = JohnBody /\ Truthy(config.json)) =>
                Texts(DataFlags) = TwoDataFlags

\* A form and a JSON body together: two -d flags.
FormAndJsonWitness ==
    /\ Returned
    /\ config.form = TwoWordsForm
    /\ config.body = JohnBody
    /\ Len(DataFlags) = 2
    /\ HasKind("form") /\ HasKind("json")

\* C4: when body is there (truthy, as the code tests it) and json is truthy,
\* there is one JSON-body -d flag, and none otherwise; its payload is the
\* body itself when that is a string and its compact JSON text otherwise,
\* with each single quote replaced by the four characters quote, backslash,
\* quote, quote; read back by the shell's quoting rules the flag is the two
\* words -d and the body string.
JsonBodyRoundTrip ==
    Returned =>
        /\ CountKind("json") = (IF Truthy(config.body) /\ Truthy(config.json) THEN 1 ELSE 0)
        /\ \A i \in 1..Len(parts) :
            parts[i].kind = "json" =>
                LET text == parts[i].text
                    payload == SubSeq(text, 5, Len(text) - 1)
                    body == IF IsString(config.body) THEN config.body.s
                            ELSE JsonStringify(config.body)
                IN  /\ StartsWith(text, <<"-", "d", " ", "'">>)
                    /\ text[Len(text)] = "'"
                    /\ Len(payload) = Len(body) + 3 * QuotesIn(body)
                    /\ QuotesIn(payload) = 3 * QuotesIn(body)
                    /\ \A k \in 1..Len(payload) :
                        payload[k] = "'" =>
                            \E q \in {0, 2, 3} :
                                /\ k - q >= 1
                                /\ k - q + 3 <= Len(payload)
                                /\ SubSeq(payload, k - q, k - q + 3) = <<"'", "\\", "'", "'">>
                    /\ ShellWords(text) = [ok |-> TRUE, words |-> <<<<"-", "d">>, body>>]
        /\ (config.body = JohnBody /\ Truthy(config.json)) =>
                TokensOf("json") = <<Tok("json", JohnFlag)>>

\* A JSON body holding a quote and a backslash was emitted.
JsonBodyQuoteWitness ==
    /\ Returned
    /\ Truthy(config.json)
    /\ config.body = Str(<<"a", "'", "\\">>)
    /\ CountKind("json") = 1

----------------------------------------------------------------------------
(* The header flags, under SpecHeaders *)

HeaderEntriesOf(c) == IF IsObject(c.headers) THEN c.headers.o ELSE <<>>

\* The two shell words a header entry should come out as: -H and name: value
HeaderWords(e) == <<<<"-", "H">>, e.k \o <<":", " ">> \o e.v.s>>

UrlWords(c) == IF Truthy(c.uri) \/ Truthy(c.url) THEN <<JsToString(OrElse(c.uri, c.url))>> ELSE <<>>

\* C5: for every header mapping there is exactly one -H flag per entry, in
\* the mapping's order, and the command is a valid shell command: every
\* quote opened is closed and each -H argument reads as one shell word, the
\* header's name, a colon, a space and its value.
HeadersValidShell ==
    Returned =>
        LET es == HeaderEntriesOf(config)
            flags == SelectSeq(parts, LAMBDA t : StartsWith(t.text, <<"-", "H", " ">>))
        IN  /\ Len(flags) = Len(es)
            /\ \A i \in 1..Len(es) :
                ShellWords(flags[i].text) = [ok |-> TRUE, words |-> HeaderWords(es[i])]
            /\ ShellWords(out) =
                [ok |-> TRUE,
                 words |-> <<Curl>> \o Concat([i \in 1..Len(es) |-> HeaderWords(es[i])])
                           \o UrlWords(config)]

\* The same, for the mappings whose names hold no single quote: the values
\* are escaped, the names are not.
HeadersValidShellPlainNames ==
    (\A i \in 1..Len(HeaderEntriesOf(config)) : ~Has(HeaderEntriesOf(config)[i].k, "'"))
        => HeadersValidShell

----------------------------------------------------------------------------
(* The call as a whole, under Spec *)

\* C6: the call never raises: whatever the object holds it returns a
\* string, and the empty object gives exactly `curl`.
NeverRaises ==
    /\ pc # "raised"
    /\ err = ""
    /\ Returned /\ config = EmptyConfig => out = Curl

----------------------------------------------------------------------------
(* The timeout flag, under SpecTimeout *)

DigitValue(c) == IndexOf(Digits, c) - 1

RECURSIVE ParseNat(_)
ParseNat(s) ==
    IF s = <<>> THEN 0
    ELSE ParseNat(SubSeq(s, 1, Len(s) - 1)) * 10 + DigitValue(s[Len(s)])

IsDecimal(s) == s # <<>> /\ \A i \in 1..Len(s) : Has(Digits, s[i])

\* The integer a decimal numeral with an optional sign stands for
ParseInt(s) == IF Head(s) = "-" THEN 0 - ParseNat(Tail(s)) ELSE ParseNat(s)

IsNumeral(s) == IsDecimal(IF s # <<>> /\ Head(s) = "-" THEN Tail(s) ELSE s)

MaxTimeTokens == SelectSeq(parts, LAMBDA t : StartsWith(t.text, MaxTimeFlag))

\* C7: --max-time N is emitted exactly when timeout is truthy (non-zero),
\* and N is the ceiling of timeout / 1000: N * 1000 >= timeout and
\* (N - 1) * 1000 < timeout, so 1500 gives 2 and 2000 gives 2; timeout 0 or
\* no timeout gives no flag.
MaxTimeIsCeiling ==
    Returned =>
        /\ Len(MaxTimeTokens) =
            (IF config.timeout.t = "number" /\ config.timeout.n # 0 THEN 1 ELSE 0)
        /\ \A i \in 1..Len(MaxTimeTokens) :
            LET numeral == SubSeq(MaxTimeTokens[i].text, Len(MaxTimeFlag) + 1,
                                  Len(MaxTimeTokens[i].text))
            IN  /\ IsNumeral(numeral)
                /\ ParseInt(numeral) * 1000 >= config.timeout.n
                /\ (ParseInt(numeral) - 1) * 1000 < config.timeout.n
        /\ config.timeout \in {Num(1500), Num(2000)} =>
            Texts(MaxTimeTokens) = <<MaxTimeFlag \o <<"2">>>>
        /\ config.timeout \in {Undef, Null, Num(0)} =>
            ~(\E i \in 1..Len(parts) : StartsWith(parts[i].text, <<"-", "-", "m">>))

\* A timeout of 1500 ms came out as --max-time 2.
MaxTimeWitness ==
    /\ Returned
    /\ config.timeout = Num(1500)
    /\ \E i \in 1..Len(parts) : parts[i].text = MaxTimeFlag \o <<"2">>

----------------------------------------------------------------------------
(* The URL token, under SpecUrl *)

NonEmpty(v) == IsString(v) /\ v.s # <<>>

Quoted(s) == <<"'">> \o s \o <<"'">>

LastText == parts[Len(parts)].text

\* The tokens that open with a quote: no flag does
QuoteTokens == SelectSeq(parts, LAMBDA t : StartsWith(t.text, <<"'">>))

\* 'http://x.test'
ExampleUrlToken ==
    <<"'", "h", "t", "t", "p", ":", "/", "/", "x", ".", "t", "e", "s", "t",
      "'">>

\* C8: uri is tried first and url only when uri is absent or empty: with both
\* non-empty the token is the uri, with one non-empty it is that one, with
\* neither there is no URL token; the token is the value between single
\* quotes, nothing escaped, and it is the last token.
UriBeforeUrl ==
    Returned =>
        /\ NonEmpty(config.uri) => LastText = Quoted(config.uri.s)
        /\ ~NonEmpty(config.uri) /\ NonEmpty(config.url) => LastText = Quoted(config.url.s)
        /\ NonEmpty(config.uri) \/ NonEmpty(config.url) =>
            /\ Len(QuoteTokens) = 1
            /\ QuoteTokens[1] = parts[Len(parts)]
        /\ ~NonEmpty(config.uri) /\ ~NonEmpty(config.url) => Len(QuoteTokens) = 0
        /\ config.uri = ExampleUrl /\ config.url = OtherUrl => LastText = ExampleUrlToken

\* Both fields set and different: the uri came out.
UriPrecedenceWitness ==
    /\ Returned
    /\ config.uri = ExampleUrl
    /\ config.url = OtherUrl
    /\ LastText = ExampleUrlToken

----------------------------------------------------------------------------
(* The insecure flag, under SpecInsecure *)

\* C9: -k is in the output if and only if rejectUnauthorized is the boolean
\* false; true, undefined, null, 0, the empty string and a missing field
\* (which reads as undefined) never give it.
InsecureOnlyOnFalse ==
    Returned =>
        /\ (\E i \in 1..Len(parts) : parts[i].text = <<"-", "k">>)
            <=> (config.rejectUnauthorized.t = "boolean" /\ ~config.rejectUnauthorized.b)
        /\ config.rejectUnauthorized \in {Bool(TRUE), Undef, Null, Num(0), Str(<<>>)} =>
            \A i \in 1..Len(parts) : parts[i].text # <<"-", "k">>
        /\ Cardinality({i \in 1..Len(parts) : parts[i].text = <<"-", "k">>}) <= 1

\* rejectUnauthorized: false gave -k.
InsecureWitness ==
    /\ Returned
    /\ config.rejectUnauthorized = Bool(FALSE)
    /\ HasKind("insecure")

----------------------------------------------------------------------------
(* The method flag, under SpecMethod *)

MethodFlags == SelectSeq(parts, LAMBDA t : StartsWith(t.text, <<"-", "X", " ">>))

\* -X POST
XPost == <<"-", "X", " ", "P", "O", "S", "T">>

\* C10: -X METHOD is emitted exactly when the uppercased method is not GET,
\* with the method in upper case: no method, or GET in any letter case,
\* gives no -X flag; post in any letter case gives the one flag -X POST,
\* directly after curl.
MethodFlagUppercased ==
    Returned =>
        /\ ~Truthy(config.method) => Len(MethodFlags) = 0
        /\ (IsString(config.method) /\ config.method.s \in CaseVariants(<<"g", "e", "t">>))
            => Len(MethodFlags) = 0
        /\ (IsString(config.method) /\ config.method.s \in CaseVariants(<<"p", "o", "s", "t">>))
            => /\ Texts(MethodFlags) = <<XPost>>
               /\ parts[2].text = XPost
        /\ (NonEmpty(config.method) /\ config.method.s \notin CaseVariants(<<"g", "e", "t">>))
            => /\ Len(MethodFlags) = 1
               /\ parts[2] = MethodFlags[1]
               /\ \A k \in 4..Len(parts[2].text) : ~Has(LowerLetters, parts[2].text[k])
               /\ Len(parts[2].text) = 3 + Len(config.method.s)

\* A mixed-case post came out as -X POST.
MixedCasePostWitness ==
    /\ Returned
    /\ config.method = Str(<<"p", "O", "s", "T">>)
    /\ parts[2].text = XPost

----------------------------------------------------------------------------
(* JSON.parse, as far as the texts drawn below go: null, true, false,      *)
(* unsigned integers, strings with the escapes \" \\ \/ \n, and objects;   *)
(* no white space, arrays, signs, fractions or exponents occur in them.    *)
(* A result is [ok, v, next]: whether a value was read, the value, and the *)
(* index after it.                                                         *)

Parsed(v, next) == [ok |-> TRUE, v |-> v, next |-> next]
SyntaxError == [ok |-> FALSE, v |-> Undef, next |-> 0]

At(s, i) == IF i >= 1 /\ i <= Len(s) THEN s[i] ELSE "<end>"

Matches(s, i, word) == i + Len(word) - 1 <= Len(s) /\ SubSeq(s, i, i + Len(word) - 1) = word

\* The characters of a string literal whose opening quote is before i
RECURSIVE ParseChars(_, _, _)
ParseChars(s, i, acc) ==
    IF i > Len(s) THEN SyntaxError
    ELSE IF s[i] = "\"" THEN Parsed(Str(acc), i + 1)
    ELSE IF s[i] = "\\"
         THEN IF At(s, i + 1) \in {"\"", "\\", "/"} THEN ParseChars(s, i + 2, Append(acc, s[i + 1]))
              ELSE IF At(s, i + 1) = "n" THEN ParseChars(s, i + 2, Append(acc, "\n"))
              ELSE SyntaxError
    ELSE IF s[i] = "\n" THEN SyntaxError
    ELSE ParseChars(s, i + 1, Append(acc, s[i]))

\* The index after the run of digits that starts at i
RECURSIVE DigitsEnd(_, _)
DigitsEnd(s, i) == IF Has(Digits, At(s, i)) THEN DigitsEnd(s, i + 1) ELSE i

RECURSIVE DigitsValue(_)
DigitsValue(ds) ==
    IF ds = <<>> THEN 0
    ELSE DigitsValue(SubSeq(ds, 1, Len(ds) - 1)) * 10 + (IndexOf(Digits, ds[Len(ds)]) - 1)

\* An integer literal: a zero stands alone
ParseNumber(s, i) ==
    LET end == DigitsEnd(s, i) IN
    IF s[i] = "0" /\ end > i + 1 THEN SyntaxError
    ELSE Parsed(Num(DigitsValue(SubSeq(s, i, end - 1))), end)

\* An object holds a name once: a later member of the same name replaces
\* the value where the name first stood.
PutEntry(entries, key, value) ==
    IF \E k \in 1..Len(entries) : entries[k].k = key
    THEN [k \in 1..Len(entries) |->
            IF entries[k].k = key THEN Entry(key, value) ELSE entries[k]]
    ELSE Append(entries, Entry(key, value))

RECURSIVE ParseValue(_, _)
RECURSIVE ParseMembers(_, _, _)

\* The members of an object from index i, a member's name expected there
ParseMembers(s, i, entries) ==
    IF At(s, i) # "\"" THEN SyntaxError
    ELSE LET key == ParseChars(s, i + 1, <<>>) IN
         IF ~key.ok \/ At(s, key.next) # ":" THEN SyntaxError
         ELSE LET value == ParseValue(s, key.next + 1) IN
              IF ~value.ok THEN SyntaxError
              ELSE LET all == PutEntry(entries, key.v.s, value.v) IN
                   IF At(s, value.next) = "}" THEN Parsed(Obj(all), value.next + 1)
                   ELSE IF At(s, value.next) = "," THEN ParseMembers(s, value.next + 1, all)
                   ELSE SyntaxError

ParseValue(s, i) ==
    LET c == At(s, i) IN
    IF c = "{"
    THEN IF At(s, i + 1) = "}" THEN Parsed(Obj(<<>>), i + 2) ELSE ParseMembers(s, i + 1, <<>>)
    ELSE IF c = "\"" THEN ParseChars(s, i + 1, <<>>)
    ELSE IF Has(Digits, c) THEN ParseNumber(s, i)
    ELSE IF Matches(s, i, <<"n", "u", "l", "l">>) THEN Parsed(Null, i + 4)
    ELSE IF Matches(s, i, <<"t", "r", "u", "e">>) THEN Parsed(Bool(TRUE), i + 4)
    ELSE IF Matches(s, i, <<"f", "a", "l", "s", "e">>) THEN Parsed(Bool(FALSE), i + 5)
    ELSE SyntaxError

\* JSON.parse(text): the value, or a SyntaxError when the text is no JSON
\* value or anything follows the value
JsonParse(s) ==
    LET r == ParseValue(s, 1) IN
    IF r.ok /\ r.next = Len(s) + 1 THEN r ELSE SyntaxError

----------------------------------------------------------------------------
(* The command-line entry point: main and convert                          *)

HelpLong == <<"-", "-", "h", "e", "l", "p">>
HelpShort == <<"-", "h">>
VersionLong == <<"-", "-", "v", "e", "r", "s", "i", "o", "n">>
VersionShort == <<"-", "v">>

\* config.<name> of the value handed to jsonToCurl: an object's member of
\* that name, undefined when it has none or the value is no object
Member(v, name) ==
    IF v.t = "object" /\ \E k \in 1..Len(v.o) : v.o[k].k = name
    THEN v.o[CHOOSE k \in 1..Len(v.o) : v.o[k].k = name].v
    ELSE Undef

\* The fields jsonToCurl reads off its argument
ConfigOf(v) ==
    [method |-> Member(v, <<"m", "e", "t", "h", "o", "d">>),
     headers |-> Member(v, <<"h", "e", "a", "d", "e", "r", "s">>),
     form |-> Member(v, <<"f", "o", "r", "m">>),
     body |-> Member(v, <<"b", "o", "d", "y">>),
     json |-> Member(v, <<"j", "s", "o", "n">>),
     gzip |-> Member(v, <<"g", "z", "i", "p">>),
     rejectUnauthorized |->
        Member(v, <<"r", "e", "j", "e", "c", "t", "U", "n", "a", "u", "t", "h", "o", "r",
                    "i", "z", "e", "d">>),
     followRedirect |->
        Member(v, <<"f", "o", "l", "l", "o", "w", "R", "e", "d", "i", "r", "e", "c", "t">>),
     followAllRedirects |->
        Member(v, <<"f", "o", "l", "l", "o", "w", "A", "l", "l", "R", "e", "d", "i", "r",
                    "e", "c", "t", "s">>),
     timeout |-> Member(v, <<"t", "i", "m", "e", "o", "u", "t">>),
     resolveWithFullResponse |->
        Member(v, <<"r", "e", "s", "o", "l", "v", "e", "W", "i", "t", "h", "F", "u", "l",
                    "l", "R", "e", "s", "p", "o", "n", "s", "e">>),
     uri |-> Member(v, <<"u", "r", "i">>),
     url |-> Member(v, <<"u", "r", "l">>),
     extra |-> Member(v, <<"e", "x", "t", "r", "a">>)]

\* What console.log wrote: the help text, the version lines or a command
Printed(what, text) == [what |-> what, text |-> text]

\* process.exit(status), after the lines written to the two streams
Exit(status, errors, prints) ==
    /\ cli' = [cli EXCEPT !.stage = "exited", !.exit = status,
                          !.stderr = cli.stderr \o errors,
                          !.stdout = cli.stdout \o prints]
    /\ UNCHANGED <<config, pc, parts, out, err>>

Goto(stage) ==
    /\ cli' = [cli EXCEPT !.stage = stage]
    /\ UNCHANGED <<config, pc, parts, out, err>>

\* main(): no argument is an error, the flags print and exit, anything else
\* goes to convert
Main ==
    /\ cli.stage = "main"
    /\ IF Len(cli.argv) = 0
       THEN Exit(1, <<"Error: No input provided">>, <<Printed("help", <<>>)>>)
       ELSE IF cli.argv[1] \in {HelpLong, HelpShort}
       THEN Exit(0, <<>>, <<Printed("help", <<>>)>>)
       ELSE IF cli.argv[1] \in {VersionLong, VersionShort}
       THEN Exit(0, <<>>, <<Printed("version", <<>>)>>)
       ELSE Goto("convert")

\* convert(input): an empty input is an error; an input that names an
\* existing path is read as a file, any other is parsed as JSON text
Convert ==
    /\ cli.stage = "convert"
    /\ IF cli.argv[1] = <<>>
       THEN Exit(1, <<"Error: No input provided">>, <<Printed("help", <<>>)>>)
       ELSE IF cli.exists THEN Goto("read") ELSE Goto("parse")

\* JSON.parse gave a value: it is kept for the call
Keep(value) ==
    /\ cli' = [cli EXCEPT !.stage = "call", !.jsonData = value]
    /\ UNCHANGED <<config, pc, parts, out, err>>

\* The try block of the file branch: readFileSync, then JSON.parse of the
\* content; either one throwing is reported as a read error
ReadFile ==
    /\ cli.stage = "read"
    /\ IF ~cli.readable \/ ~JsonParse(cli.content).ok
       THEN Exit(1, <<"Error reading file">>, <<>>)
       ELSE Keep(JsonParse(cli.content).v)

\* The try block of the literal branch: JSON.parse of the argument
ParseArgument ==
    /\ cli.stage = "parse"
    /\ IF ~JsonParse(cli.argv[1]).ok
       THEN Exit(1, <<"Error parsing JSON", "Make sure to wrap the JSON in quotes">>, <<>>)
       ELSE Keep(JsonParse(cli.argv[1]).v)

\* const curlCommand = jsonToCurl(jsonData): the call starts with parts =
\* ['curl']; reading config.method off null throws before any section runs
Translate ==
    /\ cli.stage = "call"
    /\ cli' = [cli EXCEPT !.stage = "translating", !.calls = cli.calls + 1]
    /\ parts' = <<Tok("curl", Curl)>>
    /\ out' = <<>>
    /\ IF cli.jsonData.t \in {"null", "undefined"}
       THEN /\ pc' = "raised"
            /\ err' = "TypeError"
            /\ UNCHANGED config
       ELSE /\ pc' = "method"
            /\ err' = ""
            /\ config' = ConfigOf(cli.jsonData)

\* console.log(curlCommand); main returns and the process ends with status 0
PrintCommand ==
    /\ cli.stage = "translating"
    /\ pc = "done"
    /\ Exit(0, <<>>, <<Printed("command", out)>>)

\* jsonToCurl threw and nothing catches it: the process prints the error to
\* standard error and ends with status 1
Uncaught ==
    /\ cli.stage = "translating"
    /\ pc = "raised"
    /\ Exit(1, <<"Uncaught error">>, <<>>)

NextCli ==
    \/ Main
    \/ Convert
    \/ ReadFile
    \/ ParseArgument
    \/ Translate
    \/ PrintCommand
    \/ Uncaught
    \/ Next

(* Command lines *)

\* null
NullText ==
    <<"n", "u", "l", "l">>

\* true
TrueText ==
    <<"t", "r", "u", "e">>

\* {"method":"GET","url":"https://api.example.com"}
GetText ==
    <<"{", "\"", "m", "e", "t", "h", "o", "d", "\"", ":", "\"", "G", "E", "T", "\"",
      ",", "\"", "u", "r", "l", "\"", ":", "\"", "h", "t", "t", "p", "s", ":", "/",
      "/", "a", "p", "i", ".", "e", "x", "a", "m", "p", "l", "e", ".", "c", "o", "m",
      "\"", "}">>

\* {"method":"post","url":"http://y.test","headers":{"Content-Type":"application/json","X-Q":"it's"},"body":{"name":"John","age":30},"json":true}
PostText ==
    <<"{", "\"", "m", "e", "t", "h", "o", "d", "\"", ":", "\"", "p", "o", "s", "t",
      "\"", ",", "\"", "u", "r", "l", "\"", ":", "\"", "h", "t", "t", "p", ":", "/",
      "/", "y", ".", "t", "e", "s", "t", "\"", ",", "\"", "h", "e", "a", "d", "e", "r",
      "s", "\"", ":", "{", "\"", "C", "o", "n", "t", "e", "n", "t", "-", "T", "y", "p",
      "e", "\"", ":", "\"", "a", "p", "p", "l", "i", "c", "a", "t", "i", "o", "n", "/",
      "j", "s", "o", "n", "\"", ",", "\"", "X", "-", "Q", "\"", ":", "\"", "i", "t",
      "'", "s", "\"", "}", ",", "\"", "b", "o", "d", "y", "\"", ":", "{", "\"", "n",
      "a", "m", "e", "\"", ":", "\"", "J", "o", "h", "n", "\"", ",", "\"", "a", "g",
      "e", "\"", ":", "3", "0", "}", ",", "\"", "j", "s", "o", "n", "\"", ":", "t",
      "r", "u", "e", "}">>

\* {"headers":{"X-N":3},"url":"http://x.test"}
NumericHeaderText ==
    <<"{", "\"", "h", "e", "a", "d", "e", "r", "s", "\"", ":", "{", "\"", "X", "-",
      "N", "\"", ":", "3", "}", ",", "\"", "u", "r", "l", "\"", ":", "\"", "h", "t",
      "t", "p", ":", "/", "/", "x", ".", "t", "e", "s", "t", "\"", "}">>

\* {"uri":"http://x.test","timeout":1500,"gzip":true}
TimeoutGzipText ==
    <<"{", "\"", "u", "r", "i", "\"", ":", "\"", "h", "t", "t", "p", ":", "/", "/",
      "x", ".", "t", "e", "s", "t", "\"", ",", "\"", "t", "i", "m", "e", "o", "u", "t",
      "\"", ":", "1", "5", "0", "0", ",", "\"", "g", "z", "i", "p", "\"", ":", "t",
      "r", "u", "e", "}">>

\* {"method":}
NoValueText ==
    <<"{", "\"", "m", "e", "t", "h", "o", "d", "\"", ":", "}">>

\* {'url':'u'}
SingleQuotedText ==
    <<"{", "'", "u", "r", "l", "'", ":", "'", "u", "'", "}">>

\* {"url":"u"}}
TrailingText ==
    <<"{", "\"", "u", "r", "l", "\"", ":", "\"", "u", "\"", "}", "}">>

JsonChars == {"{", "}", "\"", "1", "a"}

SampleTexts ==
    {NullText, TrueText, GetText, PostText, NumericHeaderText, TimeoutGzipText,
     NoValueText, SingleQuotedText, TrailingText}

\* The texts given as the argument or found in the file
CliTexts == Strings(JsonChars, MaxLen) \cup SampleTexts

FilePath == <<"r", "e", "q", ".", "j", "s", "o", "n">>

\* The process at its start: the argument list, whether the argument names
\* an existing path, whether that path can be read, and what it holds
Started(argv, exists, readable, content) ==
    /\ cli = [NoCli EXCEPT !.stage = "main", !.argv = argv, !.exists = exists,
                           !.readable = readable, !.content = content]
    /\ config = EmptyConfig
    /\ pc = "cli"
    /\ parts = <<>>
    /\ out = <<>>
    /\ err = ""

InitCli ==
    \/ \E argv \in {<<>>, <<HelpLong>>, <<HelpShort>>, <<VersionLong>>, <<VersionShort>>,
                    <<<<>>>>, <<GetText, HelpLong>>} :
        Started(argv, FALSE, FALSE, <<>>)
    \/ \E text \in CliTexts : Started(<<text>>, FALSE, FALSE, <<>>)
    \/ \E path \in {FilePath, GetText}, text \in CliTexts : Started(<<path>>, TRUE, TRUE, text)
    \/ \E path \in {FilePath, GetText} : Started(<<path>>, TRUE, FALSE, <<>>)

SpecCli == InitCli /\ [][NextCli]_vars

----------------------------------------------------------------------------
(* The command-line entry point, under SpecCli *)

Exited == cli.stage = "exited"

\* The argument goes to convert and is no empty string
Converting ==
    /\ Len(cli.argv) >= 1
    /\ cli.argv[1] \notin {HelpLong, HelpShort, VersionLong, VersionShort, <<>>}

\* Reading the file or parsing the JSON fails, told from the input alone
ReadOrParseFails ==
    /\ Converting
    /\ IF cli.exists THEN ~cli.readable \/ ~JsonParse(cli.content).ok
       ELSE ~JsonParse(cli.argv[1]).ok

CommandsPrinted == SelectSeq(cli.stdout, LAMBDA p : p.what = "command")

\* curl \ + newline + two spaces + 'https://api.example.com'
GetCommand ==
    <<"c", "u", "r", "l", " ", "\\", "\n", " ", " ", "'", "h", "t", "t",
      "p", "s", ":", "/", "/", "a", "p", "i", ".", "e", "x", "a", "m", "p",
      "l", "e", ".", "c", "o", "m", "'">>

\* What does hold of convert: a read or parse error is reported with a
\* non-zero status before any call of jsonToCurl and with no command
\* printed; jsonToCurl is called at most once; a process that ends with
\* status 0 after a call has printed the call's result, once.
ErrorsBeforeTranslator ==
    /\ cli.calls <= 1
    /\ ReadOrParseFails =>
        /\ cli.calls = 0
        /\ pc = "cli"
        /\ CommandsPrinted = <<>>
        /\ Exited => cli.exit # 0 /\ cli.stderr # <<>>
    /\ cli.calls = 1 => Converting /\ ~ReadOrParseFails
    /\ Exited /\ cli.calls = 1 /\ cli.exit = 0 =>
        /\ pc = "done"
        /\ CommandsPrinted = <<Printed("command", out)>>
    /\ Exited /\ cli.calls = 1 /\ ~cli.exists /\ cli.argv[1] = GetText /\ Len(cli.argv) = 1 =>
        CommandsPrinted = <<Printed("command", GetCommand)>>

\* C11: in convert, read and parse errors come before the translator and it
\* never sees malformed input: when reading the file or parsing the JSON
\* fails an error is reported, the status is non-zero, jsonToCurl is not
\* called and no command is printed; jsonToCurl is called only with a value
\* it can translate, and then its result is printed exactly once.
TranslatorNeverSeesBadInput ==
    /\ ReadOrParseFails =>
        /\ cli.calls = 0
        /\ CommandsPrinted = <<>>
        /\ Exited => cli.exit # 0 /\ cli.stderr # <<>>
    /\ cli.calls > 0 => pc # "raised"
    /\ Exited /\ Converting /\ ~ReadOrParseFails =>
        /\ cli.exit = 0
        /\ CommandsPrinted = <<Printed("command", out)>>

\* The argument null parses, and jsonToCurl is called with null and throws.
NullReachesTranslator ==
    /\ Exited
    /\ cli.argv = <<NullText>>
    /\ cli.calls = 1
    /\ pc = "raised"
    /\ cli.exit = 1
    /\ CommandsPrinted = <<>>

====
